---------------------------- MODULE Spec2Model ----------------------------
(***************************************************************************)
(* Model of src/app.py: a Streamlit script that reads a YouTube video id   *)
(* from a text input (widget key "linkid") and, when the id is non-empty,  *)
(* emits an HTML fragment holding an iframe that points at the embed URL.  *)
(*                                                                         *)
(* Strings are sequences of one-character strings, so that the f-string    *)
(* interpolations of lines 11 and 14-20 are real concatenations and the    *)
(* fragment can be read back the way an HTML tokenizer reads it.           *)
(***************************************************************************)
EXTENDS Integers, Sequences, FiniteSets, TLC

\* Longest identifier the user types in the model.
MaxLen == 2

\* Characters the user can type: an ordinary character, a double quote,
\* a closing angle bracket and a blank.
Alphabet == {"a", "\"", ">", " "}

\* Every string of at most n characters over Alphabet.
StringsUpTo(n) == UNION {[1..k -> Alphabet] : k \in 0..n}

Identifiers == StringsUpTo(MaxLen)

(***************************************************************************)
(* Literals of the script.                                                 *)
(***************************************************************************)

\* Line 4: the subheader text (the leading emoji is written as its code point).
SubheaderBody == "U+1F3A5 Enter YouTube Video ID:"

\* Line 7: label and key of the text input.
InputLabel == "Video Link ID"

InputKey == "linkid"

\* Line 11: the literal before {video_id}.
UrlPrefix == <<
    "h", "t", "t", "p", "s", ":", "/", "/", "w", "w", "w", ".",
    "y", "o", "u", "t", "u", "b", "e", ".", "c", "o", "m", "/",
    "e", "m", "b", "e", "d", "/" >>

\* Line 11: the literal after {video_id}.
UrlSuffix == << "?", "r", "e", "l", "=", "0" >>

\* Lines 14-16: the literal before {embed_url}.
FragmentHead == <<
    "\n", " ", " ", " ", " ", " ", " ", " ", " ", "<", "i", "f",
    "r", "a", "m", "e", " ", "w", "i", "d", "t", "h", "=", "\"",
    "7", "0", "0", "\"", " ", "h", "e", "i", "g", "h", "t", "=",
    "\"", "4", "0", "0", "\"", "\n", " ", " ", " ", " ", " ", " ",
    " ", " ", "s", "r", "c", "=", "\"" >>

\* Lines 16-20: the literal after {embed_url}.
FragmentTail == <<
    "\"", "\n", " ", " ", " ", " ", " ", " ", " ", " ", "f", "r",
    "a", "m", "e", "b", "o", "r", "d", "e", "r", "=", "\"", "0",
    "\"", "\n", " ", " ", " ", " ", " ", " ", " ", " ", "a", "l",
    "l", "o", "w", "f", "u", "l", "l", "s", "c", "r", "e", "e",
    "n", ">", "\n", " ", " ", " ", " ", " ", " ", " ", " ", "<",
    "/", "i", "f", "r", "a", "m", "e", ">", "\n", " ", " ", " ",
    " " >>

\* Line 20: the height of the component's container.
ContainerHeight == 400

(***************************************************************************)
(* State.                                                                  *)
(*   linkid     the value the framework holds for the widget key "linkid"  *)
(*   pc         the line the running script is at, or "done"               *)
(*   video_id   the script's local of line 7 (<<>> until assigned)         *)
(*   embed_url  the script's local of line 11 (<<>> until assigned)        *)
(*   delta      the UI elements this run has written to the display        *)
(*   snapshot   history variable: at most one earlier completed run, as    *)
(*              <<[id, out]>>; no step of the script reads it              *)
(***************************************************************************)
VARIABLES linkid, pc, video_id, embed_url, delta, snapshot

vars == <<linkid, pc, video_id, embed_url, delta, snapshot>>

Lines == {"subheader", "text_input", "if", "embed_url", "html", "done"}

\* A guard that lets every str through (the test "is not None").
TruthyNotNone(s) == TRUE

\* Python's truth value of a str: non-empty.
Truthy(s) == Len(s) > 0

\* A formatter that drops the blanks of the identifier before interpolating it.
FormatEmbedUrlTrimmed(id) ==
    UrlPrefix \o SelectSeq(id, LAMBDA c : c # " ") \o UrlSuffix

\* Line 11: f"https://www.youtube.com/embed/{video_id}?rel=0".  Formatting a
\* str with an empty format spec yields the str itself.
FormatEmbedUrl(id) == UrlPrefix \o id \o UrlSuffix

\* Lines 14-20: the f-string handed to components.html.
FormatFragment(url) == FragmentHead \o url \o FragmentTail

SubheaderElement == [type |-> "subheader", body |-> SubheaderBody]

TextInputElement(value) ==
    [type |-> "text_input", label |-> InputLabel, key |-> InputKey,
     value |-> value]

HtmlElement(html, height) == [type |-> "html", html |-> html, height |-> height]

\* The value st.text_input returns: the one stored under the widget's key.
WidgetValue == linkid

\* The framework's rerun: the script is executed again from line 1 with fresh
\* locals, and what the previous run displayed is replaced.
StartRunKeepingDisplay ==
    /\ pc' = "subheader"
    /\ video_id' = <<>>
    /\ embed_url' = <<>>
    /\ delta' = delta

StartRun ==
    /\ pc' = "subheader"
    /\ video_id' = <<>>
    /\ embed_url' = <<>>
    /\ delta' = <<>>

\* History: when a completed run gives way to a new one, the history either
\* keeps what it holds or takes the run that has just ended.
Remember ==
    snapshot' \in {snapshot} \cup
        (IF pc = "done" THEN {<< [id |-> video_id, out |-> delta] >>} ELSE {})

Init ==
    /\ linkid = <<>>
    /\ pc = "subheader"
    /\ video_id = <<>>
    /\ embed_url = <<>>
    /\ delta = <<>>
    /\ snapshot = <<>>

\* Line 4: st.subheader(...).
Subheader ==
    /\ pc = "subheader"
    /\ delta' = Append(delta, SubheaderElement)
    /\ pc' = "text_input"
    /\ UNCHANGED <<linkid, video_id, embed_url, snapshot>>

\* A text input that empties the stored value once it has read it.
TextInputClearing ==
    /\ pc = "text_input"
    /\ video_id' = WidgetValue
    /\ delta' = Append(delta, TextInputElement(WidgetValue))
    /\ pc' = "if"
    /\ linkid' = <<>>
    /\ UNCHANGED <<embed_url, snapshot>>

\* Line 7: video_id = st.text_input("Video Link ID", key="linkid").
TextInput ==
    /\ pc = "text_input"
    /\ video_id' = WidgetValue
    /\ delta' = Append(delta, TextInputElement(WidgetValue))
    /\ pc' = "if"
    /\ UNCHANGED <<linkid, embed_url, snapshot>>

\* A guard that rejects an identifier holding anything but ordinary characters
\* and reports it with an error element.
IfVideoIdValidated ==
    /\ pc = "if"
    /\ IF \E k \in 1..Len(video_id) : video_id[k] # "a"
          THEN /\ delta' = Append(delta, [type |-> "error"])
               /\ pc' = "done"
          ELSE /\ delta' = delta
               /\ pc' = IF Truthy(video_id) THEN "embed_url" ELSE "done"
    /\ UNCHANGED <<linkid, video_id, embed_url, snapshot>>

\* Line 10: if video_id.
IfVideoId ==
    /\ pc = "if"
    /\ pc' = IF Truthy(video_id) THEN "embed_url" ELSE "done"
    /\ UNCHANGED <<linkid, video_id, embed_url, delta, snapshot>>

\* Line 11: embed_url = f"...".
EmbedUrl ==
    /\ pc = "embed_url"
    /\ embed_url' = FormatEmbedUrl(video_id)
    /\ pc' = "html"
    /\ UNCHANGED <<linkid, video_id, delta, snapshot>>

\* An embed that is written above what the run has displayed so far.
ComponentsHtmlOnTop ==
    /\ pc = "html"
    /\ delta' = <<HtmlElement(FormatFragment(embed_url), ContainerHeight)>> \o delta
    /\ pc' = "done"
    /\ UNCHANGED <<linkid, video_id, embed_url, snapshot>>

\* Lines 14-20: components.html(f"""...""", height=400).
ComponentsHtml ==
    /\ pc = "html"
    /\ delta' = Append(delta, HtmlElement(FormatFragment(embed_url), ContainerHeight))
    /\ pc' = "done"
    /\ UNCHANGED <<linkid, video_id, embed_url, snapshot>>

\* One step of the running script.
Script == Subheader \/ TextInput \/ IfVideoId \/ EmbedUrl \/ ComponentsHtml

\* The user commits a new value in the text field: the framework stores it
\* under the key "linkid" and runs the script again from the top (a run in
\* progress is abandoned).
UserEditWithoutRerun ==
    \E s \in Identifiers :
        /\ s # linkid
        /\ linkid' = s
        /\ UNCHANGED <<pc, video_id, embed_url, delta, snapshot>>

UserEdit ==
    \E s \in Identifiers :
        /\ s # linkid
        /\ linkid' = s
        /\ StartRun
        /\ Remember

\* The user asks for a rerun without touching the field.
Rerun ==
    /\ pc = "done"
    /\ StartRun
    /\ Remember
    /\ UNCHANGED linkid

Next == Script \/ UserEdit \/ Rerun

Spec == Init /\ [][Next]_vars

(***************************************************************************)
(* Reading a fragment back: the attributes of its first iframe start tag,  *)
(* as the HTML tokenizer of the browser finds them.  A value in double     *)
(* quotes ends at the next double quote, an unquoted value at the next     *)
(* blank or ">", the tag at the first ">" outside a quoted value, and of   *)
(* two attributes with one name the first counts.                          *)
(***************************************************************************)
HtmlSpace == {" ", "\n", "\t"}

IframeOpen == << "<", "i", "f", "r", "a", "m", "e" >>

\* Position of the first character after the first "<iframe", 0 if none.
AfterIframeOpen(h) ==
    LET n == Len(IframeOpen)
        starts == {i \in 1..(Len(h) - n + 1) : SubSeq(h, i, i + n - 1) = IframeOpen}
    IN  IF starts = {} THEN 0
        ELSE (CHOOSE i \in starts : \A j \in starts : i <= j) + n

\* The first position from i on whose character is in S (not in S, for
\* FirstNotIn); Len(h) + 1 if there is none.
FirstIn(h, i, S) ==
    LET hits == {j \in i..Len(h) : h[j] \in S}
    IN  IF hits = {} THEN Len(h) + 1 ELSE CHOOSE j \in hits : \A k \in hits : j <= k

FirstNotIn(h, i, S) ==
    LET hits == {j \in i..Len(h) : h[j] \notin S}
    IN  IF hits = {} THEN Len(h) + 1 ELSE CHOOSE j \in hits : \A k \in hits : j <= k

Unclosed == [closed |-> FALSE, attrs |-> <<>>]

RECURSIVE Tokenize(_, _, _)
\* The tokenizer before an attribute name at position i of h, with the
\* attributes read so far.  One call reads one attribute: its name up to a
\* blank, "/", "=" or ">", and after "=" its value.  A tag the text ends in
\* is no tag.
Tokenize(h, i, attrs) ==
    LET n == Len(h)
        j == FirstNotIn(h, i, HtmlSpace \cup {"/"})
        e == FirstIn(h, j + 1, HtmlSpace \cup {"/", "=", ">"})
        name == SubSeq(h, j, e - 1)
        k == FirstNotIn(h, e, HtmlSpace)
        v == FirstNotIn(h, k + 1, HtmlSpace)
        dq == FirstIn(h, v + 1, {"\""})
        sq == FirstIn(h, v + 1, {"'"})
        u == FirstIn(h, v, HtmlSpace \cup {">"})
        With(value) == Append(attrs, [name |-> name, value |-> value])
    IN  IF j > n THEN Unclosed
        ELSE IF h[j] = ">" THEN [closed |-> TRUE, attrs |-> attrs]
        ELSE IF k > n THEN Unclosed
        ELSE IF h[k] # "=" THEN Tokenize(h, k, With(<<>>))
        ELSE IF v > n THEN Unclosed
        ELSE IF h[v] = "\"" THEN
            IF dq > n THEN Unclosed ELSE Tokenize(h, dq + 1, With(SubSeq(h, v + 1, dq - 1)))
        ELSE IF h[v] = "'" THEN
            IF sq > n THEN Unclosed ELSE Tokenize(h, sq + 1, With(SubSeq(h, v + 1, sq - 1)))
        ELSE IF h[v] = ">" THEN [closed |-> TRUE, attrs |-> With(<<>>)]
        ELSE IF u > n THEN Unclosed
        ELSE Tokenize(h, u, With(SubSeq(h, v, u - 1)))

\* The iframe start tag of h: whether there is one, and its attributes in
\* the order read.
IframeTag(h) ==
    IF AfterIframeOpen(h) = 0 THEN Unclosed
    ELSE Tokenize(h, AfterIframeOpen(h), <<>>)

HasAttr(tag, n) == \E k \in 1..Len(tag.attrs) : tag.attrs[k].name = n

\* The value of attribute n of the tag: that of its first occurrence.
AttrValue(tag, n) ==
    LET k == CHOOSE k \in 1..Len(tag.attrs) :
                 /\ tag.attrs[k].name = n
                 /\ \A j \in 1..(k - 1) : tag.attrs[j].name # n
    IN  tag.attrs[k].value

(***************************************************************************)
(* What the claims speak of.                                               *)
(***************************************************************************)

\* The embed fragments among the elements d.
HtmlElements(d) == SelectSeq(d, LAMBDA e : e.type = "html")

\* The kinds of the elements d, in the order written.
Types(d) == [k \in 1..Len(d) |-> d[k].type]

\* The two states of a completed render cycle.
NoIdentifier == pc = "done" /\ Len(HtmlElements(delta)) = 0

HasIdentifier == pc = "done" /\ Len(HtmlElements(delta)) = 1

\* A string of at least one character.
NonEmpty(s) == s # <<>>

Quote == "\""

HasQuote(s) == \E k \in 1..Len(s) : s[k] = Quote

SrcName == << "s", "r", "c" >>

WidthName == << "w", "i", "d", "t", "h" >>

HeightName == << "h", "e", "i", "g", "h", "t" >>

FrameborderName == << "f", "r", "a", "m", "e", "b", "o", "r", "d", "e", "r" >>

AllowfullscreenName ==
    << "a", "l", "l", "o", "w", "f", "u", "l", "l", "s", "c", "r", "e", "e", "n" >>

\* The iframe of fragment h carries src = url.
SrcIs(h, url) ==
    LET tag == IframeTag(h)
    IN  tag.closed /\ HasAttr(tag, SrcName) /\ AttrValue(tag, SrcName) = url

\* The iframe of fragment h carries width 700 and height 400.
SizeIsFixed(h) ==
    LET tag == IframeTag(h)
    IN  /\ tag.closed
        /\ HasAttr(tag, WidthName) /\ AttrValue(tag, WidthName) = << "7", "0", "0" >>
        /\ HasAttr(tag, HeightName) /\ AttrValue(tag, HeightName) = << "4", "0", "0" >>

\* The iframe of fragment h carries frameborder 0 and allowfullscreen.
BorderAndFullscreenFixed(h) ==
    LET tag == IframeTag(h)
    IN  /\ tag.closed
        /\ HasAttr(tag, FrameborderName) /\ AttrValue(tag, FrameborderName) = << "0" >>
        /\ HasAttr(tag, AllowfullscreenName)

(***************************************************************************)
(* C1.  For every non-empty identifier s, the embed URL built in that      *)
(* render cycle is "https://www.youtube.com/embed/", then s itself with    *)
(* nothing trimmed, encoded or escaped, then "?rel=0".                     *)
(***************************************************************************)
EmbedUrlIsPrefixIdSuffix ==
    (pc \in {"html", "done"} /\ NonEmpty(video_id)) =>
        LET p == Len(UrlPrefix)
            n == Len(video_id)
        IN  /\ video_id = linkid
            /\ Len(embed_url) = p + n + Len(UrlSuffix)
            /\ SubSeq(embed_url, 1, p) = UrlPrefix
            /\ SubSeq(embed_url, p + 1, p + n) = video_id
            /\ SubSeq(embed_url, p + n + 1, Len(embed_url)) = UrlSuffix

\* A cycle has built the URL of an identifier made of a quote and a blank.
EmbedUrlBuiltForQuoteBlank ==
    /\ pc = "done"
    /\ video_id = << Quote, " " >>
    /\ Len(embed_url) = Len(UrlPrefix) + Len(UrlSuffix) + Len(video_id)

(***************************************************************************)
(* C2.  A render cycle emits an embed fragment if and only if the          *)
(* identifier it read is non-empty: none for the empty identifier, exactly *)
(* one otherwise.                                                          *)
(***************************************************************************)
EmbedIffNonEmpty ==
    /\ Len(HtmlElements(delta)) <= 1
    /\ Len(HtmlElements(delta)) = 1 => NonEmpty(video_id)
    /\ pc = "done" =>
          Len(HtmlElements(delta)) = (IF video_id = <<>> THEN 0 ELSE 1)

\* A cycle with an empty identifier has completed after one with a
\* non-empty identifier that emitted its single embed.
EmptyCycleAfterEmbedCycle ==
    /\ pc = "done"
    /\ video_id = <<>>
    /\ Len(delta) = Len(HtmlElements(delta)) + 2
    /\ snapshot # <<>>
    /\ Len(HtmlElements(snapshot[1].out)) = 1

(***************************************************************************)
(* C3.  For every non-empty identifier the iframe of the emitted fragment  *)
(* has a src attribute equal to the embed URL, whatever the identifier     *)
(* holds: a double quote, an angle bracket or a blank included.            *)
(***************************************************************************)
SrcAttributeIsEmbedUrl ==
    \A k \in 1..Len(delta) :
        delta[k].type = "html" =>
            SrcIs(delta[k].html, UrlPrefix \o video_id \o UrlSuffix)

\* The same for the identifiers that hold no double quote.
SrcAttributeIsEmbedUrlWithoutQuote ==
    \A k \in 1..Len(delta) :
        (delta[k].type = "html" /\ ~HasQuote(video_id)) =>
            SrcIs(delta[k].html, UrlPrefix \o video_id \o UrlSuffix)

(***************************************************************************)
(* C4.  Every embed fragment produced specifies iframe width 700 and       *)
(* height 400, frameborder 0 and allowfullscreen, in a container of height *)
(* 400, whatever the identifier: no identifier changes these attributes.   *)
(***************************************************************************)
FixedAttributes ==
    \A k \in 1..Len(delta) :
        delta[k].type = "html" =>
            /\ delta[k].height = ContainerHeight
            /\ SizeIsFixed(delta[k].html)
            /\ BorderAndFullscreenFixed(delta[k].html)

\* What of it holds for every identifier: width, height and the container.
FixedSize ==
    \A k \in 1..Len(delta) :
        delta[k].type = "html" =>
            /\ delta[k].height = ContainerHeight
            /\ SizeIsFixed(delta[k].html)

(***************************************************************************)
(* C5.  Two render cycles run with the same identifier produce the same    *)
(* output, element for element and character for character, whether one    *)
(* follows the other directly or other cycles lie between them.            *)
(***************************************************************************)
SameIdentifierSameOutput ==
    (pc = "done" /\ snapshot # <<>> /\ snapshot[1].id = video_id) =>
        snapshot[1].out = delta

\* A later cycle has completed with the non-empty identifier of a
\* remembered earlier one.
SecondCycleWithSameIdentifier ==
    /\ pc = "done"
    /\ snapshot # <<>>
    /\ snapshot[1].id = video_id
    /\ NonEmpty(video_id)
    /\ Len(delta) = Len(snapshot[1].out)

(***************************************************************************)
(* C6.  After any edits, a completed cycle's output is that of the         *)
(* identifier current at that cycle and of nothing earlier: it is in       *)
(* {has-identifier} exactly when that identifier is non-empty, the input   *)
(* shows it, and the only embed there is points at it.                     *)
(***************************************************************************)
OutputOfCurrentIdentifierOnly ==
    pc = "done" =>
        /\ video_id = linkid
        /\ HasIdentifier <=> linkid # <<>>
        /\ NoIdentifier <=> linkid = <<>>
        /\ Len(delta) = Len(HtmlElements(delta)) + 2
        /\ delta[2].type = "text_input" /\ delta[2].value = linkid
        /\ \A k \in 1..Len(delta) :
              delta[k].type = "html" =>
                  delta[k].html =
                      FragmentHead \o UrlPrefix \o linkid \o UrlSuffix \o FragmentTail

\* A cycle for one non-empty identifier has completed after a cycle for
\* another non-empty identifier.
EditedFromOneIdentifierToAnother ==
    /\ pc = "done"
    /\ snapshot # <<>>
    /\ NonEmpty(snapshot[1].id)
    /\ NonEmpty(linkid)
    /\ snapshot[1].id # linkid
    /\ HasIdentifier

(***************************************************************************)
(* C7.  For every identifier the render cycle runs to completion and ends  *)
(* in {no-identifier} or {has-identifier}: no line of the script is stuck, *)
(* no identifier is rejected and no error element is written.              *)
(***************************************************************************)
NoErrorOfItsOwn ==
    /\ pc \in Lines
    /\ pc # "done" => ENABLED Script
    /\ \A k \in 1..Len(delta) : delta[k].type \in {"subheader", "text_input", "html"}
    /\ pc = "done" => (NoIdentifier \/ HasIdentifier)
    /\ (pc = "done" /\ NonEmpty(video_id)) => HasIdentifier

\* A cycle has completed for an identifier that names no video: a quote
\* followed by an angle bracket.
MalformedIdentifierCompleted ==
    /\ pc = "done"
    /\ video_id = << Quote, ">" >>
    /\ HasIdentifier

(***************************************************************************)
(* C8.  Every cycle writes the prompt, then the text input, once each,     *)
(* and the embed, when there is one, after both.                           *)
(***************************************************************************)
PromptInputThenEmbed ==
    /\ Len(delta) <= 3
    /\ Types(delta) = SubSeq(<< "subheader", "text_input", "html" >>, 1, Len(delta))
    /\ pc \in {"if", "embed_url", "html", "done"} => Len(delta) >= 2

\* A cycle has completed with all three elements written.
ThreeElementsWritten ==
    /\ pc = "done"
    /\ Len(delta) = 3

(***************************************************************************)
(* C9.  A render cycle reads the identifier and never changes it: no step  *)
(* of the script changes the value stored under "linkid", and the stored   *)
(* value changes only by a user edit.                                      *)
(***************************************************************************)
RenderingLeavesLinkid ==
    [][/\ Script => linkid' = linkid
       /\ linkid' # linkid => UserEdit]_vars

\* A cycle has run to its end on a non-empty stored value, which is still
\* the value it read.
CycleCompletedOnStoredValue ==
    /\ pc = "done"
    /\ NonEmpty(linkid)
    /\ video_id = linkid
    /\ HasIdentifier

=============================================================================
